---- MODULE Spec2Model ----
(***************************************************************************)
(* Model of GetKafkaTimes (src/opl/get_kafka_times.py): the loop of        *)
(* process_messages that consumes messages, validates them, buffers the    *)
(* records, flushes them to the store in batches, submits offsets for      *)
(* asynchronous commit and decides when to stop.                           *)
(*                                                                         *)
(* The store is a set of rows still waiting for their update ("pending");  *)
(* the remaining_count query counts them and the store_info query updates  *)
(* the pending rows whose key is carried by a record of the batch.  The    *)
(* store is shared: another writer can update a pending row while the      *)
(* consumer waits for the next message.                                    *)
(* Time is an integer clock that advances while the consumer iterator is   *)
(* blocked waiting for a message.                                          *)
(***************************************************************************)
EXTENDS Integers, Sequences, FiniteSets, TLC

\* ---- bounds of the model ----
\* rows pre-created in the store, keyed 1..NumRows; key 0 matches no row
NumRows == 3
\* messages the topic can deliver during one run (offsets 0..MaxMsgs-1)
MaxMsgs == 3
\* the clock stops advancing at MaxTime
MaxTime == 4
\* args.max_quiet_period; args.kafka_timeout is either the same or one more
MaxQuiet == 1
\* self.batches_size (500 in the source, line 43), scaled to the model
batches_size == 2

Rows == 1..NumRows

NoMessage == [offset |-> -1, valid |-> FALSE, key |-> 0]
NoResult == -1

VARIABLES
    pc,               \* position of process_messages
    now,              \* the clock read by dt_now()
    waited,           \* time the iterator has been blocked in this next()
    kafka_timeout,    \* consumer_timeout_ms
    max_quiet_period, \* self.max_quiet_period
    pending,          \* store: keys of the rows not yet updated
    remaining_count,  \* self.remaining_count
    stored_counter,   \* self.stored_counter
    waiting_items,    \* self.waiting_items
    last_stored_at,   \* self.last_stored_at
    message,          \* loop variable of "for message in consumer"
    consumer,         \* "none", "open" or "closed"
    consumed,         \* history: validity of the message yielded at each offset
    commits,          \* history: offsets handed to commit_async
    failed_acks,      \* submitted offsets whose response is an Exception
    flushes,          \* history: the store_now calls of the run
    last_effective_at,\* clock at loop start or at the last flush with updated > 0
    initial_remaining,\* remaining_count as __init__ left it
    exit_reason,      \* which exit of the loop was taken
    result            \* value returned by process_messages

vars == <<pc, now, waited, kafka_timeout, max_quiet_period, pending,
          remaining_count, stored_counter, waiting_items, last_stored_at,
          message, consumer, consumed, commits, failed_acks,
          flushes, last_effective_at, initial_remaining, exit_reason, result>>

\* ---- pure helpers ----
Min(a, b) == IF a <= b THEN a ELSE b

RECURSIVE SumUpdated(_)
SumUpdated(fs) ==
    IF fs = <<>> THEN 0 ELSE fs[1].updated + SumUpdated(Tail(fs))

ItemKeys(items) == {items[i].key : i \in 1..Len(items)}
ItemOffsets(items) == {items[i].offset : i \in 1..Len(items)}

\* update_remaining_count: the remaining_count query on the store
RemainingQuery(rows) == Cardinality(rows)

\* store_info: update-only write, RETURNING the updated rows
\* (cursor.fetchall(); [] when there is nothing to fetch)
FetchAll(items, rows) == ItemKeys(items) \cap rows

\* mutant: the records handed to the query are counted, not the rows
\* it returned
UpdatedCountsRecords(items, rows) == Len(items)

\* updated = len(updated), line 113
Updated(items, rows) == Cardinality(FetchAll(items, rows))

Lowest(S) == CHOOSE x \in S : \A y \in S : x <= y

\* the rows the next record or the next outside write can be about, up to
\* renaming of rows: one pending row that has a record in the buffer and one
\* that has none (a flush treats the rows of each kind alike)
RowChoices(rows, items) ==
    LET buffered == rows \cap ItemKeys(items)
        fresh == rows \ ItemKeys(items)
    IN  (IF buffered = {} THEN {} ELSE {Lowest(buffered)})
          \cup (IF fresh = {} THEN {} ELSE {Lowest(fresh)})

\* the key of a record: 0 stands for every key the update matches no
\* pending row with (no such row, or a row that already has its value)
MessageKeys(rows, items) == {0} \cup RowChoices(rows, items)

\* mutant: the buffer is kept when the flush updated nothing
ItemsKeptWhenNoneUpdated(items, updated) ==
    IF updated = 0 THEN items ELSE <<>>

\* self.waiting_items.clear(), line 108
ClearedItems(items, updated) == <<>>

\* mutant: the counter is overwritten instead of incremented
StoredCounterOverwritten(counter, updated) == updated

\* self.stored_counter += updated, line 114
NewStoredCounter(counter, updated) == counter + updated

\* lines 110-115: fetchall() gives a list, never None, so the else branch
\* runs on every call and last_stored_at is set whatever the count
NewLastStoredAt(last, updated, t) == t

\* lines 110-116: same branch, update_remaining_count() runs on every call
NewRemainingCount(old, updated, rows) == RemainingQuery(rows)

\* mutant: only the batch size triggers the flush
ThresholdBatchOnly(items, remaining) == Len(items) >= batches_size

\* store_item, lines 124-125
ThresholdReached(items, remaining) ==
    Len(items) >= batches_size \/ Len(items) >= remaining

\* mutant: the startup shortcut is never taken
AllInNegative(remaining) == remaining < 0

\* line 135
AllIn(remaining) == remaining = 0

\* mutant: the validator's verdict is ignored
MessageValidationSkipped(msg) == TRUE

\* line 147: custom_methods['message_validation'](value)
MessageValidation(msg) == msg.valid

\* line 149: custom_methods['process_message'](ts, value)
ProcessMessage(msg) == [offset |-> msg.offset, key |-> msg.key]

\* mutant: the offset of the message itself is submitted
CommitOffsetSame(msg) == msg.offset

\* line 160: OffsetAndMetadata(message.offset + 1, b'')
CommitOffset(msg) == msg.offset + 1

\* mutant: the watchdog already fires when the quiet period is reached
QuietLongEnough(t, last, maxq) == t - last >= maxq

\* line 166
QuietTooLong(t, last, maxq) == t - last > maxq

\* mutant: the watchdog gives up whatever the forced flush updated
WatchdogNeverContinues(updated) == FALSE

\* lines 168-173: continue when the forced flush updated something
WatchdogContinues(updated) == updated > 0

\* the histories cover the messages at offsets below MaxMsgs
Record(h, x) == IF message.offset < MaxMsgs THEN Append(h, x) ELSE h

\* ---- store_now, lines 90-119 ----
StoreNow(kind) ==
    LET updated == Updated(waiting_items, pending)
        rows == pending \ FetchAll(waiting_items, pending)
    IN  /\ pending' = rows
        /\ waiting_items' = ClearedItems(waiting_items, updated)
        /\ stored_counter' = NewStoredCounter(stored_counter, updated)
        /\ last_stored_at' = NewLastStoredAt(last_stored_at, updated, now)
        /\ remaining_count' = NewRemainingCount(remaining_count, updated, rows)
        /\ flushes' = Record(flushes, [kind |-> kind,
                                       offsets |-> ItemOffsets(waiting_items),
                                       updated |-> updated])
        /\ last_effective_at' = IF updated > 0 THEN now ELSE last_effective_at

NoStore == UNCHANGED <<pending, waiting_items, stored_counter,
                       last_stored_at, remaining_count, flushes,
                       last_effective_at>>

\* ---- initial state: after __init__, before process_messages ----
Init ==
    /\ pc = "init"
    /\ now = 0
    /\ waited = 0
    /\ kafka_timeout \in {MaxQuiet, MaxQuiet + 1}
    /\ max_quiet_period = MaxQuiet
    /\ pending \in {1..n : n \in 0..NumRows}
    /\ remaining_count = RemainingQuery(pending)
    /\ stored_counter = 0
    /\ waiting_items = <<>>
    /\ last_stored_at = 0
    /\ message = NoMessage
    /\ consumer = "none"
    /\ consumed = <<>>
    /\ commits = <<>>
    /\ failed_acks = {}
    /\ flushes = <<>>
    /\ last_effective_at = 0
    /\ initial_remaining = remaining_count
    /\ exit_reason = "none"
    /\ result = NoResult

\* ---- process_messages, lines 134-142 ----
Start ==
    /\ pc = "init"
    /\ IF AllIn(remaining_count)
       THEN /\ pc' = "done"
            /\ result' = 0
            /\ exit_reason' = "remaining_zero"
            /\ UNCHANGED <<last_stored_at, last_effective_at, consumer>>
       ELSE /\ pc' = "poll"
            /\ last_stored_at' = now
            /\ last_effective_at' = now
            /\ consumer' = "open"
            /\ UNCHANGED <<result, exit_reason>>
    /\ UNCHANGED <<now, waited, kafka_timeout, max_quiet_period, pending,
                   remaining_count, stored_counter, waiting_items, message,
                   consumed, commits, failed_acks, flushes,
                   initial_remaining>>

\* time passes while "for message in consumer" waits for a message
Tick ==
    /\ pc = "poll"
    /\ now < MaxTime
    /\ waited < kafka_timeout
    /\ now' = now + 1
    /\ waited' = waited + 1
    /\ UNCHANGED <<pc, kafka_timeout, max_quiet_period, pending,
                   remaining_count, stored_counter, waiting_items,
                   last_stored_at, message, consumer, consumed, commits,
                   failed_acks, flushes, last_effective_at,
                   initial_remaining, exit_reason, result>>

\* line 143: the iterator yields the next message of the topic
NextMessage ==
    /\ pc = "poll"
    /\ waited < kafka_timeout
    /\ Len(consumed) < MaxMsgs
    /\ \E v \in BOOLEAN, k \in MessageKeys(pending, waiting_items) :
         \* the payload of a rejected message is never looked at
         /\ (~v => k = 0)
         /\ message' = [offset |-> Len(consumed), valid |-> v, key |-> k]
         /\ consumed' = Append(consumed, v)
    /\ pc' = "validate"
    /\ UNCHANGED <<now, waited, kafka_timeout, max_quiet_period, pending,
                   remaining_count, stored_counter, waiting_items,
                   last_stored_at, consumer, commits, failed_acks,
                   flushes, last_effective_at, initial_remaining, exit_reason,
                   result>>

\* line 143: nothing arrived within consumer_timeout_ms, the iteration ends
EndOfSequence ==
    /\ pc = "poll"
    /\ waited >= kafka_timeout
    /\ pc' = "final"
    /\ exit_reason' = "source_timeout"
    /\ UNCHANGED <<now, waited, kafka_timeout, max_quiet_period, pending,
                   remaining_count, stored_counter, waiting_items,
                   last_stored_at, message, consumer, consumed, commits,
                   failed_acks, flushes, last_effective_at,
                   initial_remaining, result>>

\* lines 130-132: the consumer runs verify_async_commit for a completed
\* commit from inside a poll; a failure response is raised out of the loop
\* and contextlib.closing closes the consumer
VerifyAsyncCommit ==
    /\ pc = "poll"
    /\ failed_acks # {}
    /\ pc' = "aborted"
    /\ consumer' = "closed"
    /\ UNCHANGED <<now, waited, kafka_timeout, max_quiet_period, pending,
                   remaining_count, stored_counter, waiting_items,
                   last_stored_at, message, consumed, commits, 
                   failed_acks, flushes, last_effective_at, initial_remaining,
                   exit_reason, result>>

\* lines 147-151 and 122: validate, transform and append to the buffer
Validate ==
    /\ pc = "validate"
    /\ IF MessageValidation(message)
       THEN /\ waiting_items' = Append(waiting_items, ProcessMessage(message))
            /\ pc' = "buffered"
       ELSE /\ pc' = "commit"
            /\ UNCHANGED waiting_items
    /\ UNCHANGED <<now, waited, kafka_timeout, max_quiet_period, pending,
                   remaining_count, stored_counter, last_stored_at, message,
                   consumer, consumed, commits, failed_acks,
                   flushes, last_effective_at, initial_remaining, exit_reason,
                   result>>

\* lines 124-126 and 153-156: threshold flush, then the remaining check
StoreItem ==
    /\ pc = "buffered"
    /\ IF ThresholdReached(waiting_items, remaining_count)
       THEN StoreNow("threshold")
       ELSE NoStore
    /\ IF AllIn(remaining_count')
       THEN /\ pc' = "final"
            /\ exit_reason' = "remaining_zero"
       ELSE /\ pc' = "commit"
            /\ UNCHANGED exit_reason
    /\ UNCHANGED <<now, waited, kafka_timeout, max_quiet_period, message,
                   consumer, consumed, commits, failed_acks,
                   initial_remaining, result>>

\* lines 158-162: consumer.commit_async(offsets, verify_async_commit)
Commit ==
    /\ pc = "commit"
    /\ commits' = Record(commits, CommitOffset(message))
    /\ pc' = "checkpoint"
    /\ UNCHANGED <<now, waited, kafka_timeout, max_quiet_period, pending,
                   remaining_count, stored_counter, waiting_items,
                   last_stored_at, message, consumer, consumed, failed_acks,
                   flushes, last_effective_at, initial_remaining, exit_reason,
                   result>>

\* lines 164-173: the quiet-period watchdog
Checkpoint ==
    /\ pc = "checkpoint"
    /\ IF QuietTooLong(now, last_stored_at, max_quiet_period)
       THEN /\ StoreNow("forced")
            /\ IF WatchdogContinues(Updated(waiting_items, pending))
               THEN /\ pc' = "poll"
                    /\ UNCHANGED exit_reason
               ELSE /\ pc' = "final"
                    /\ exit_reason' = "watchdog"
       ELSE /\ NoStore
            /\ pc' = "poll"
            /\ UNCHANGED exit_reason
    /\ waited' = 0
    /\ UNCHANGED <<now, kafka_timeout, max_quiet_period, message, consumer,
                   consumed, commits, failed_acks, initial_remaining,
                   result>>

\* lines 142 and 175-177: the with block closes the consumer, the final
\* store_now runs and the stored counter is returned
Finish ==
    /\ pc = "final"
    /\ consumer' = "closed"
    /\ StoreNow("final")
    /\ result' = stored_counter'
    /\ pc' = "done"
    /\ UNCHANGED <<now, waited, kafka_timeout, max_quiet_period, message,
                   consumed, commits, failed_acks, initial_remaining,
                   exit_reason>>

\* lines 96-106: execute_values, fetchall or commit raise something other
\* than the ProgrammingError of an empty result; nothing catches it, so it
\* leaves store_now and process_messages, and the with block (if still
\* open) closes the consumer on the way out
StoreFailure ==
    /\ \/ pc = "buffered" /\ ThresholdReached(waiting_items, remaining_count)
       \/ pc = "checkpoint"
            /\ QuietTooLong(now, last_stored_at, max_quiet_period)
       \/ pc = "final"
    /\ pc' = "aborted"
    /\ consumer' = "closed"
    /\ exit_reason' = "store_error"
    /\ UNCHANGED <<now, waited, kafka_timeout, max_quiet_period, pending,
                   remaining_count, stored_counter, waiting_items,
                   last_stored_at, message, consumed, commits, failed_acks,
                   flushes, last_effective_at, initial_remaining, result>>

\* ---- environment ----
\* the broker answers a commit request with a failure (the response is an
\* Exception); the consumer receives responses while it polls
AckFail ==
    /\ pc = "poll"
    \* the first failure is the one that matters: one per run
    /\ failed_acks = {}
    /\ \E i \in 1..Len(commits) :
         /\ commits[i] \notin failed_acks
         /\ failed_acks' = failed_acks \cup {commits[i]}
    /\ UNCHANGED <<pc, now, waited, kafka_timeout, max_quiet_period, pending,
                   remaining_count, stored_counter, waiting_items,
                   last_stored_at, message, consumer, consumed, commits,
                   flushes, last_effective_at, initial_remaining, exit_reason,
                   result>>

\* another writer of the shared store updates a pending row
ExternalUpdate ==
    /\ pc = "poll"
    \* one such update per run: so far every missing row was stored here
    /\ Cardinality(pending) + stored_counter = initial_remaining
    /\ \E k \in RowChoices(pending, waiting_items) : pending' = pending \ {k}
    /\ UNCHANGED <<pc, now, waited, kafka_timeout, max_quiet_period,
                   remaining_count, stored_counter, waiting_items,
                   last_stored_at, message, consumer, consumed, commits,
                   failed_acks, flushes, last_effective_at,
                   initial_remaining, exit_reason, result>>

Next ==
    \/ Start
    \/ Tick
    \/ NextMessage
    \/ EndOfSequence
    \/ VerifyAsyncCommit
    \/ Validate
    \/ StoreItem
    \/ Commit
    \/ Checkpoint
    \/ Finish
    \/ StoreFailure
    \/ AckFail
    \/ ExternalUpdate

Spec == Init /\ [][Next]_vars

\* ---- a source that never runs dry, a clock that never stops ----
\* line 143: the iterator yields a message; the source has any number of
\* them, so the message is not entered in the histories (its offset is
\* past the recorded ones)
LaterMessage ==
    /\ pc = "poll"
    /\ waited < kafka_timeout
    /\ \E v \in BOOLEAN, k \in MessageKeys(pending, waiting_items) :
         /\ (~v => k = 0)
         /\ message' = [offset |-> MaxMsgs, valid |-> v, key |-> k]
    /\ pc' = "validate"
    /\ UNCHANGED <<now, waited, kafka_timeout, max_quiet_period, pending,
                   remaining_count, stored_counter, waiting_items,
                   last_stored_at, consumer, consumed, commits, failed_acks,
                   flushes, last_effective_at, initial_remaining, exit_reason,
                   result>>

\* time passes beyond MaxTime: the clock is rebased, which keeps every
\* difference now - t that is at most MaxTime
LaterTick ==
    /\ pc = "poll"
    /\ now = MaxTime
    /\ waited < kafka_timeout
    /\ waited' = waited + 1
    /\ last_stored_at' = IF last_stored_at > 0 THEN last_stored_at - 1 ELSE 0
    /\ last_effective_at' =
          IF last_effective_at > 0 THEN last_effective_at - 1 ELSE 0
    /\ UNCHANGED <<pc, now, kafka_timeout, max_quiet_period, pending,
                   remaining_count, stored_counter, waiting_items, message,
                   consumer, consumed, commits, failed_acks, flushes,
                   initial_remaining, exit_reason, result>>

LiveNext ==
    \/ Start
    \/ Tick
    \/ LaterTick
    \/ LaterMessage
    \/ EndOfSequence
    \/ Validate
    \/ StoreItem
    \/ Commit
    \/ Checkpoint
    \/ Finish
    \/ StoreFailure
    \/ ExternalUpdate

\* the loop keeps running (one thread, every step is taken once it can
\* be) and time keeps advancing; nothing is assumed of the source, the
\* store or the other writers of the store
LiveSpec ==
    /\ Init
    /\ [][LiveNext]_vars
    /\ WF_vars(Start)
    /\ WF_vars(Validate)
    /\ WF_vars(StoreItem)
    /\ WF_vars(Commit)
    /\ WF_vars(Checkpoint)
    /\ WF_vars(Finish)
    /\ WF_vars(EndOfSequence)
    /\ SF_vars(Tick \/ LaterTick)

\* ---- derived history ----
Range(q) == {q[i] : i \in 1..Len(q)}

\* offsets of the records that some store_now call passed to the store
FlushedOffsets == UNION {flushes[j].offsets : j \in 1..Len(flushes)}

\* offsets of the messages pulled so far, and of those that were validated
ConsumedOffsets == {i - 1 : i \in 1..Len(consumed)}
ValidatedOffsets == {i - 1 : i \in {j \in 1..Len(consumed) : consumed[j]}}

InLoop == pc \in {"poll", "validate", "buffered", "commit", "checkpoint"}

TypeOK ==
    /\ pc \in {"init", "poll", "validate", "buffered", "commit",
               "checkpoint", "final", "done", "aborted"}
    /\ now \in 0..MaxTime
    /\ waited \in 0..kafka_timeout
    /\ remaining_count \in 0..NumRows
    /\ stored_counter \in 0..NumRows
    /\ Len(waiting_items) <= MaxMsgs
    /\ consumer \in {"none", "open", "closed"}
    /\ exit_reason \in {"none", "remaining_zero", "source_timeout",
                        "watchdog", "store_error"}

\* C1: every validated message whose offset+1 has been submitted for
\* commit has had its record included in a flush to the store; no offset
\* is submitted while its record is only in the in-memory buffer.
C1_AtLeastOnce ==
    \A o \in ValidatedOffsets :
        (o + 1) \in Range(commits) => o \in FlushedOffsets

\* C2: the buffer never holds more than min(batch size, remaining count)
\* records, also right after store_item appended a record and before the
\* flush it triggers (the remaining count does not change while the
\* buffer fills).
C2_BufferCap ==
    Len(waiting_items) <= Min(batches_size, remaining_count)

\* C3: while the loop runs, the time since the last effective flush (or
\* the loop start) never exceeds max_quiet_period plus one poll timeout,
\* flushes that update nothing included.
C3_QuietPeriodBound ==
    InLoop => now - last_effective_at <= max_quiet_period + kafka_timeout

\* C4: when process_messages returns, the stored count is the sum of the
\* updated counts of all store_now calls of the run (0 without a call).
C4_Conservation ==
    pc = "done" => result = SumUpdated(flushes)

C4_Witness ==
    /\ pc = "done"
    /\ result >= 2
    /\ \E j \in 1..Len(flushes) :
         flushes[j].kind = "forced" /\ flushes[j].updated > 0
    /\ \E j \in 1..Len(flushes) :
         flushes[j].kind = "threshold" /\ flushes[j].updated > 0

\* C5: a run that returns a stored count left by exactly one of three
\* exits: the remaining count is 0, the source gave no message within its
\* timeout, or the watchdog's forced flush updated nothing.
C5_TerminationEquivalence ==
    pc = "done" =>
        \/ /\ exit_reason = "remaining_zero"
           /\ remaining_count = 0
        \/ /\ exit_reason = "source_timeout"
           /\ waited >= kafka_timeout
           /\ consumer = "closed"
        \/ /\ exit_reason = "watchdog"
           /\ Len(flushes) >= 2
           /\ flushes[Len(flushes) - 1].kind = "forced"
           /\ flushes[Len(flushes) - 1].updated = 0

C5_Witness ==
    /\ pc = "done"
    /\ exit_reason = "watchdog"
    /\ remaining_count > 0
    /\ flushes[Len(flushes) - 1].offsets # {}

\* C6: whenever the loop is about to pull the next message, or the run is
\* done, offset+1 of every message pulled so far has been submitted for
\* commit, the message whose flush emptied the remaining count included.
C6_EveryOffsetSubmitted ==
    pc \in {"poll", "done"} =>
        \A o \in ConsumedOffsets : (o + 1) \in Range(commits)

\* C7: no message is pulled from the source while the remaining count
\* is 0: the loop leaves for DONE first.
C7_CheckpointRule ==
    [][remaining_count = 0 => consumed' = consumed]_vars

\* C8: a rejected message changes neither the buffer, the stored count,
\* the remaining count nor the flush history, does not abort the run, and
\* its offset+1 is submitted for commit.
C8_RejectionNonFatal ==
    [][(pc \in {"validate", "commit"} /\ ~message.valid) =>
          /\ UNCHANGED <<waiting_items, stored_counter, remaining_count,
                         flushes>>
          /\ pc = "validate" => pc' \in {"validate", "commit"}
          /\ pc = "commit" => pc' \in {"commit", "checkpoint"}
          /\ pc' = "checkpoint" => (message.offset + 1) \in Range(commits')
      ]_vars

C8_Witness ==
    /\ pc = "checkpoint"
    /\ ~message.valid
    /\ message.offset >= 0
    /\ waiting_items # <<>>
    /\ (message.offset + 1) \in Range(commits)

\* C9: with a remaining count of 0 at startup the run returns 0 and no
\* consumer is created, no message consumed, no offset submitted and no
\* flush called.
C9_InitShortcut ==
    initial_remaining = 0 =>
        /\ pc \in {"init", "done"}
        /\ consumer = "none"
        /\ consumed = <<>>
        /\ commits = <<>>
        /\ flushes = <<>>
        /\ pc = "done" => result = 0

C9_Witness ==
    /\ initial_remaining = 0
    /\ pc = "done"
    /\ result = 0

\* C10: a run in which the response to a submitted offset commit was a
\* failure never returns a stored count.
C10_CommitFailureFatal ==
    pc = "done" => failed_acks = {}
\* ---- more derived history ----
Last(q) == q[Len(q)]

\* a store_now call returned in this step
Flushed == Len(flushes') = Len(flushes) + 1

\* C11: every store_now call leaves the buffer empty whatever it updated;
\* a run that returns after the consume loop ended with a final store_now,
\* its buffer is empty, and the record of every validated message was
\* passed to the store by exactly one store_now call.
C11_FinalFlushAndClear ==
    /\ [][Flushed => waiting_items' = <<>>]_vars
    /\ [](pc = "done" /\ consumer = "closed" =>
            /\ waiting_items = <<>>
            /\ flushes # <<>>
            /\ Last(flushes).kind = "final"
            /\ \A j \in 1..(Len(flushes) - 1) : flushes[j].kind # "final"
            /\ FlushedOffsets = ValidatedOffsets
            /\ \A i, j \in 1..Len(flushes) :
                 i # j => flushes[i].offsets \cap flushes[j].offsets = {})

C11_Witness ==
    /\ pc = "done"
    /\ Len(flushes) >= 2
    /\ flushes[1].offsets # {}
    /\ flushes[1].updated = 0
    /\ Last(flushes).offsets # {}
\* C12: with the loop running and time advancing, every run ends (DONE,
\* or aborted by an error), also when the source delivers messages for
\* ever and no flush ever updates a row.
C12_BoundedShutdown ==
    <>(pc \in {"done", "aborted"})
\* C13: a store write that returns no rows (an empty buffer included)
\* counts as 0 updated: store_now returns 0, the stored count stays as it
\* is and the run is not aborted by it.
C13_NoRowsIsZero ==
    [][(Flushed /\ ItemKeys(waiting_items) \cap pending = {}) =>
          /\ Last(flushes').updated = 0
          /\ stored_counter' = stored_counter
          /\ pending' = pending
          /\ pc' # "aborted"
      ]_vars

C13_Witness ==
    /\ pc = "done"
    /\ Len(flushes) >= 2
    /\ flushes[1].offsets # {}
    /\ flushes[1].updated = 0
    /\ Last(flushes).offsets = {}
    /\ Last(flushes).updated = 0
    /\ result = 0

\* C14: a store write that fails aborts the run: no stored count is
\* returned, no further message is consumed, the consumer is closed, and
\* offset+1 of the message being processed has not been submitted.
C14_StoreFailureFatal ==
    [][(pc \in {"buffered", "checkpoint", "final"} /\ pc' = "aborted") =>
          /\ result' = NoResult
          /\ consumer' = "closed"
          /\ consumed' = consumed
          /\ flushes' = flushes
          /\ pc \in {"buffered", "checkpoint"} =>
                 (message.offset + 1) \notin Range(commits')
      ]_vars
\* C15: last_stored_at changes only when the consume loop starts and at a
\* store_now call that updated at least one row; a call that updated
\* nothing leaves it as it is.
C15_LastStoredOnlyWhenEffective ==
    [][last_stored_at' # last_stored_at =>
          \/ pc = "init"
          \/ Flushed /\ Last(flushes').updated > 0
      ]_vars

\* C16: after startup remaining_count is refreshed only by a store_now
\* call that updated at least one row; a call that updated nothing does
\* not query the store and leaves remaining_count as it is.
C16_RemainingOnlyWhenEffective ==
    [][remaining_count' # remaining_count =>
          Flushed /\ Last(flushes').updated > 0
      ]_vars
\* C17: at a checkpoint with now - last_stored_at > max_quiet_period one
\* forced store_now is made; if it updated something the clock is reset
\* and the loop goes back to the source, if it updated nothing the loop
\* is left and no further message is pulled.  At a checkpoint within the
\* quiet period no flush is made and the loop goes back to the source.
C17_WatchdogDecision ==
    /\ [][(pc = "checkpoint" /\ pc' \notin {"checkpoint", "aborted"}) =>
            IF now - last_stored_at > max_quiet_period
            THEN /\ Flushed
                 /\ Last(flushes').kind = "forced"
                 /\ Last(flushes').offsets = ItemOffsets(waiting_items)
                 /\ Last(flushes').updated > 0 =>
                        pc' = "poll" /\ last_stored_at' = now
                 /\ Last(flushes').updated = 0 =>
                        pc' = "final" /\ exit_reason' = "watchdog"
            ELSE /\ flushes' = flushes
                 /\ last_stored_at' = last_stored_at
                 /\ pc' = "poll"
        ]_vars
    /\ [][pc = "final" => consumed' = consumed /\ pc' # "poll"]_vars

C17_Witness ==
    /\ pc = "poll"
    /\ flushes # <<>>
    /\ Last(flushes).kind = "forced"
    /\ Last(flushes).updated > 0
    /\ last_stored_at = now
    /\ remaining_count > 0
\* C18: with rows remaining, an empty buffer and no message at all for
\* longer than max_quiet_period, the run ends through the watchdog: a
\* forced flush that updates nothing, then DONE with stored count 0.
C18_Starvation ==
    (/\ pc = "done"
     /\ initial_remaining > 0
     /\ consumed = <<>>
     /\ waited > max_quiet_period) =>
        /\ exit_reason = "watchdog"
        /\ \E j \in 1..Len(flushes) :
             flushes[j].kind = "forced" /\ flushes[j].updated = 0
        /\ result = 0

\* the first n messages pulled were all validated
FirstValid(n) == \A i \in 1..Min(n, Len(consumed)) : consumed[i]

\* the message at offset n - 1 has been pulled and has left store_item
PastStoreItem(n) ==
    /\ Len(consumed) >= n
    /\ ~(Len(consumed) = n /\ pc \in {"validate", "buffered"})

C20_CommitOrdering ==
    /\ \A i \in 1..(Len(commits) - 1) : commits[i] < commits[i + 1]
    /\ \A i \in 1..Len(commits) : (commits[i] - 1) \in ConsumedOffsets
    /\ Len(commits) <= Len(consumed)
    /\ pc \in {"validate", "buffered", "commit"} =>
           (message.offset + 1) \notin Range(commits)
    /\ pc = "checkpoint" => Last(commits) = message.offset + 1

C20_Witness ==
    /\ pc = "checkpoint"
    /\ Len(commits) >= 2
    /\ consumed[1]
    /\ message.offset + 1 = Len(consumed)
====
